---- MODULE Spec2Model ----
(***************************************************************************)
(* Model of mapper/emulation.py: the emulated world (EmulatedWorld) and    *)
(* the interpreter thread (Emulator.run).                                  *)
(*                                                                         *)
(* Python strings that the code inspects (tokens, vnums, directions,       *)
(* input lines) are sequences of one-character strings, so that            *)
(* startswith, isdigit, strip, lower, join and sorted are computed and     *)
(* not assumed.  Output lines are records [text, arg]: the literal of the  *)
(* format string and the value formatted into it.                          *)
(***************************************************************************)
EXTENDS Integers, Sequences, FiniteSets, TLC

(***************************************************************************)
(* Words                                                                   *)
(***************************************************************************)
north == <<"n", "o", "r", "t", "h">>
east == <<"e", "a", "s", "t">>
south == <<"s", "o", "u", "t", "h">>
west == <<"w", "e", "s", "t">>
up == <<"u", "p">>
down == <<"d", "o", "w", "n">>
wLook == <<"l", "o", "o", "k">>
wExits == <<"e", "x", "i", "t", "s">>
wQuit == <<"q", "u", "i", "t">>
wVnum == <<"v", "n", "u", "m">>
wBrief == <<"b", "r", "i", "e", "f">>
wTerrain == <<"t", "e", "r", "r", "a", "i", "n">>
wPath == <<"p", "a", "t", "h">>
wRlabel == <<"r", "l", "a", "b", "e", "l">>
wRinfo == <<"r", "i", "n", "f", "o">>
wRnote == <<"r", "n", "o", "t", "e">>
wRdelete == <<"r", "d", "e", "l", "e", "t", "e">>
wSavemap == <<"s", "a", "v", "e", "m", "a", "p">>
undefined == <<"u", "n", "d", "e", "f", "i", "n", "e", "d">>
death == <<"d", "e", "a", "t", "h">>
wHome == <<"h", "o", "m", "e">>
wLost == <<"l", "o", "s", "t">>
wPit == <<"p", "i", "t">>
wVoid == <<"v", "o", "i", "d">>
wXyzzy == <<"x", "y", "z", "z", "y">>
wGate == <<"g", "a", "t", "e">>
sp == <<" ">>
NoStr == <<>>

\* The value of an attribute that was never assigned (Python's None).
None == <<"<None>">>

(***************************************************************************)
(* String primitives                                                       *)
(***************************************************************************)
Digits == {"0", "1", "2", "3", "4", "5", "6", "7", "8", "9"}

\* Code points order the characters the model's vnums are made of.
Ord(c) ==
  CASE c = "0" -> 48 [] c = "1" -> 49 [] c = "2" -> 50 [] c = "3" -> 51
    [] c = "4" -> 52 [] c = "5" -> 53 [] c = "6" -> 54 [] c = "7" -> 55
    [] c = "8" -> 56 [] c = "9" -> 57 [] OTHER -> 127

\* s.startswith(p)
StartsWith(s, p) == Len(p) <= Len(s) /\ SubSeq(s, 1, Len(p)) = p

\* s.isdigit()
IsDigit(s) == Len(s) > 0 /\ \A i \in 1..Len(s) : s[i] \in Digits

\* a < b as Python compares two strings
RECURSIVE StrLess(_, _)
StrLess(a, b) ==
  IF b = <<>> THEN FALSE
  ELSE IF a = <<>> THEN TRUE
  ELSE IF a[1] # b[1] THEN Ord(a[1]) < Ord(b[1])
  ELSE StrLess(Tail(a), Tail(b))

\* sorted(keys)[0]
SortedFirst(keys) == CHOOSE k \in keys : \A o \in keys \ {k} : StrLess(k, o)

\* sep.join(parts)
RECURSIVE Join(_, _)
Join(sep, parts) ==
  IF parts = <<>> THEN <<>>
  ELSE IF Len(parts) = 1 THEN parts[1]
  ELSE parts[1] \o sep \o Join(sep, Tail(parts))

\* c.lower() for one character
LowerChar(c) ==
  CASE c = "N" -> "n" [] c = "Q" -> "q" [] c = "L" -> "l" [] OTHER -> c

\* s.lower()
Lower(s) == [i \in 1..Len(s) |-> LowerChar(s[i])]

\* s.strip(), for the whitespace of a line read from the terminal
RECURSIVE LStrip(_)
LStrip(s) == IF s # <<>> /\ s[1] = " " THEN LStrip(Tail(s)) ELSE s
RECURSIVE RStrip(_)
RStrip(s) ==
  IF s # <<>> /\ s[Len(s)] = " " THEN RStrip(SubSeq(s, 1, Len(s) - 1)) ELSE s
Strip(s) == LStrip(RStrip(s))

\* Index of the first character of s that is c, 0 if there is none.
RECURSIVE FindChar(_, _, _)
FindChar(s, c, i) ==
  IF i > Len(s) THEN 0 ELSE IF s[i] = c THEN i ELSE FindChar(s, c, i + 1)

(***************************************************************************)
(* Collaborators of emulation.py: constants.py and world.py                *)
(***************************************************************************)
\* constants.DIRECTIONS, in canonical order
DIRECTIONS == <<north, east, south, west, up, down>>

DirectionSet == {DIRECTIONS[i] : i \in 1..Len(DIRECTIONS)}

\* World.sortExits: the exits of a room in the canonical order of DIRECTIONS
SortExits(exits) == SelectSeq(DIRECTIONS, LAMBDA d : d \in DOMAIN exits)

\* constants.RUN_DESTINATION_REGEX.match(arguments) is not None, for the
\* syntax destination[|flag[|flag...]]: non-empty fields separated by '|'.
RECURSIVE RunDestinationMatches(_)
RunDestinationMatches(arguments) ==
  LET bar == FindChar(arguments, "|", 1)
  IN  IF arguments = <<>> THEN FALSE
      ELSE IF bar = 0 THEN TRUE
      ELSE IF bar = 1 THEN FALSE
      ELSE RunDestinationMatches(SubSeq(arguments, bar + 1, Len(arguments)))

\* The verbs of line 202, which parseInput hands to the editors of World.
EditVerbs ==
  { <<"f", "d", "o", "o", "r">>, <<"f", "n", "a", "m", "e">>,
    <<"f", "n", "o", "t", "e">>, wRnote, <<"r", "a", "l", "i", "g", "n">>,
    <<"r", "l", "i", "g", "h", "t">>,
    <<"r", "p", "o", "r", "t", "a", "b", "l", "e">>,
    <<"r", "r", "i", "d", "a", "b", "l", "e">>, <<"r", "a", "v", "o", "i", "d">>,
    <<"r", "t", "e", "r", "r", "a", "i", "n">>, <<"r", "x">>, <<"r", "y">>,
    <<"r", "z">>, <<"r", "m", "o", "b", "f", "l", "a", "g", "s">>,
    <<"r", "l", "o", "a", "d", "f", "l", "a", "g", "s">>,
    <<"e", "x", "i", "t", "f", "l", "a", "g", "s">>,
    <<"d", "o", "o", "r", "f", "l", "a", "g", "s">>,
    <<"s", "e", "c", "r", "e", "t">>, <<"r", "l", "i", "n", "k">>, wRdelete }

(***************************************************************************)
(* Dictionaries                                                            *)
(***************************************************************************)
EmptyDict == [k \in {} |-> TRUE]

\* d.get(k, default)
Get(d, k, default) == IF k \in DOMAIN d THEN d[k] ELSE default

\* d.update(o)
Update(d, o) ==
  [k \in DOMAIN d \cup DOMAIN o |-> IF k \in DOMAIN o THEN o[k] ELSE d[k]]

\* d[k] = v
SetItem(d, k, v) == [x \in DOMAIN d \cup {k} |-> IF x = k THEN v ELSE d[x]]

(***************************************************************************)
(* json.dump and json.load of a settings dictionary                        *)
(***************************************************************************)
\* The settings of the program, in the order sort_keys=True writes them.
SettingKeys == <<"brief", "last_vnum", "show_vnum", "use_terrain_symbols">>

jTrue == <<"t", "r", "u", "e">>
jFalse == <<"f", "a", "l", "s", "e">>

\* The JSON text of one value: a string in quotes, a boolean as its literal.
JsonValue(k, v) ==
  IF k = "last_vnum" THEN <<"\"">> \o v \o <<"\"">>
  ELSE IF v THEN jTrue ELSE jFalse

\* The value of one JSON text.
JsonParse(text) ==
  IF text = jTrue THEN TRUE
  ELSE IF text = jFalse THEN FALSE
  ELSE SubSeq(text, 2, Len(text) - 1)

\* json.dump(d, sort_keys=True): the members written, in key order
JsonDump(d) ==
  LET keys == SelectSeq(SettingKeys, LAMBDA k : k \in DOMAIN d)
  IN  [i \in 1..Len(keys) |-> [key |-> keys[i], text |-> JsonValue(keys[i], d[keys[i]])]]

\* json.load: the dictionary of the members read
JsonLoad(members) ==
  [k \in {members[i].key : i \in 1..Len(members)} |->
     JsonParse((CHOOSE m \in {members[i] : i \in 1..Len(members)} : m.key = k).text)]

(***************************************************************************)
(* Room databases, label files and settings files the program is started   *)
(* with                                                                    *)
(***************************************************************************)
r1 == <<"1">>
r2 == <<"2">>
r3 == <<"3">>
r5 == <<"5">>
r7 == <<"7">>
r9 == <<"9">>
r10 == <<"1", "0">>

Exit(to, door, exitFlags, doorFlags) ==
  [to |-> to, door |-> door, exitFlags |-> exitFlags, doorFlags |-> doorFlags]

Room(name, desc, dynamicDesc, terrain, note, exits) ==
  [name |-> name, desc |-> desc, dynamicDesc |-> dynamicDesc,
   terrain |-> terrain, note |-> note, exits |-> exits]

WorldA ==
  (r2 :> Room(<<"B">>, <<<<"b">>, <<" ">>, <<"c">>>>, <<"m">>, "field", NoStr,
              (north :> Exit(r3, NoStr, {"door"}, {}))
              @@ (east :> Exit(death, NoStr, {}, {}))
              @@ (south :> Exit(undefined, NoStr, {}, {}))
              @@ (west :> Exit(r7, NoStr, {"road"}, {}))))
  @@ (r3 :> Room(<<"C">>, <<<<"c">>>>, NoStr, "road", <<"k">>,
              (south :> Exit(r2, wGate, {"door"}, {"hidden"}))
              @@ (up :> Exit(r10, NoStr, {"road"}, {}))))
  @@ (r10 :> Room(<<"A">>, <<>>, NoStr, "city", NoStr,
              (down :> Exit(r3, NoStr, {"door", "road"}, {"hidden"}))))

WorldB ==
  (r1 :> Room(<<"D">>, <<<<"d">>>>, NoStr, "field", NoStr, EmptyDict))
  @@ (r5 :> Room(<<"E">>, <<<<"e">>>>, NoStr, "road", NoStr,
              (north :> Exit(death, wGate, {}, {}))
              @@ (south :> Exit(r1, NoStr, {}, {}))))

LabelsNone == EmptyDict
LabelsNamed ==
  (wHome :> r3) @@ (<<"n">> :> r10) @@ (wLost :> r9) @@ (wPit :> death)
  @@ (wVoid :> undefined)
LabelsShadow == (r10 :> r3)
LabelsStale == (r2 :> r9) @@ (wHome :> r3)
LabelsFatal == (r1 :> death)

File(data) == [kind |-> "file", data |-> JsonDump(data)]
Absent == [kind |-> "absent", data |-> <<>>]
Corrupt == [kind |-> "corrupt", data |-> <<>>]
Directory == [kind |-> "dir", data |-> <<>>]

Scenario(rooms_, labels_, sample_, user_, gui_) ==
  [rooms |-> rooms_, labels |-> labels_, sample |-> sample_, user |-> user_,
   use_gui |-> gui_]

Scenarios ==
  { Scenario(WorldA, LabelsNone, Absent, Absent, FALSE),
    Scenario(WorldA, LabelsNamed, File("show_vnum" :> FALSE),
             File(("last_vnum" :> r2) @@ ("brief" :> FALSE)), TRUE),
    Scenario(WorldA, LabelsShadow, Absent, Corrupt, FALSE),
    Scenario(WorldA, LabelsStale, File("brief" :> TRUE),
             File("last_vnum" :> r2), FALSE),
    Scenario(WorldA, LabelsNone, Directory,
             File(("last_vnum" :> r9) @@ ("use_terrain_symbols" :> TRUE)), TRUE),
    Scenario(WorldB, LabelsNone, Absent, File("last_vnum" :> r5), FALSE),
    Scenario(WorldB, LabelsFatal, Absent, Absent, TRUE),
    Scenario(WorldB, LabelsNone, File("brief" :> FALSE), Directory, TRUE) }

(***************************************************************************)
(* State                                                                   *)
(***************************************************************************)
VARIABLES
  rooms,             \* World.rooms: vnum -> room
  labels,            \* World.labels: label -> vnum
  sampleConfigFile,  \* data/emulation_config.json.sample
  configFile,        \* data/emulation_config.json
  use_gui,           \* Emulator._use_gui
  config,            \* EmulatedWorld.config
  currentRoom,       \* vnum of EmulatedWorld.currentRoom, None while unset
  pc,                \* position of the Emulator thread
  gui_queue,         \* World._gui_queue
  gui_queue_lock,    \* World._gui_queue_lock: "free", or the thread holding it
  puts,              \* the number of put calls on the queue so far
  userInput,         \* the line the last step read, stripped and lowered
  out,               \* the lines the last step wrote
  handler,           \* the branch of parseInput the last step ran
  moveArg,           \* the argument of the last step's call of move
  looks              \* what each look() call of the last step rendered

vars ==
  <<rooms, labels, sampleConfigFile, configFile, use_gui, config, currentRoom,
    pc, gui_queue, gui_queue_lock, puts, userInput, out, handler, moveArg,
    looks>>

\* The hand-off to the presentation layer.
gui == <<gui_queue, gui_queue_lock, puts>>

Line(text, arg) == [text |-> text, arg |-> arg]

\* EmulatedWorld.output: the lines of text that are not blank
Output(lines) ==
  SelectSeq(lines, LAMBDA l : ~(l.text = "{0}" /\ Strip(l.arg) = <<>>))

\* The fields of self that the methods read and assign.
Self(room, cfg) == [currentRoom |-> room, config |-> cfg]

\* What a method leaves behind: the world, the lines written, the look()
\* calls made, and whether an exception left the method.
Result(st, lines, rendered, raised) ==
  [currentRoom |-> st.currentRoom, config |-> st.config, out |-> lines,
   looks |-> rendered, raised |-> raised]

(***************************************************************************)
(* EmulatedWorld.look                                                      *)
(***************************************************************************)
HasDoor(exitObj) == exitObj.door # NoStr \/ "door" \in exitObj.exitFlags

\* The entry of the doors list for one exit.
DoorEntry(direction, exitObj) ==
  direction \o <<":", " ">>
    \o (IF exitObj.door # NoStr THEN exitObj.door ELSE <<"e", "x", "i", "t">>)

\* Mutant of ExitEntry: an exit to a room that is not in the room set gets no
\* '??' marker.
ExitEntry_UnknownUnmarked(direction, exitObj) ==
  LET d == IF HasDoor(exitObj)
           THEN IF "hidden" \notin exitObj.doorFlags
                THEN <<"(">> \o direction \o <<")">>
                ELSE <<"[">> \o direction \o <<"]">>
           ELSE direction
  IN  IF exitObj.to = death THEN <<"!", "!">> \o d \o <<"!", "!">>
      ELSE IF exitObj.to = undefined THEN <<"?", "?">> \o d \o <<"?", "?">>
      ELSE IF exitObj.to \in DOMAIN rooms /\ rooms[exitObj.to].terrain = "road"
        THEN <<"=">> \o d \o <<"=">>
      ELSE IF "road" \in exitObj.exitFlags THEN <<"-">> \o d \o <<"-">>
      ELSE d

\* Mutant of ExitEntry: the road flag of the exit is tested before the
\* terrain of the destination.
ExitEntry_TrailFirst(direction, exitObj) ==
  LET d == IF HasDoor(exitObj)
           THEN IF "hidden" \notin exitObj.doorFlags
                THEN <<"(">> \o direction \o <<")">>
                ELSE <<"[">> \o direction \o <<"]">>
           ELSE direction
  IN  IF exitObj.to = death THEN <<"!", "!">> \o d \o <<"!", "!">>
      ELSE IF exitObj.to \notin DOMAIN rooms \/ exitObj.to = undefined
        THEN <<"?", "?">> \o d \o <<"?", "?">>
      ELSE IF "road" \in exitObj.exitFlags THEN <<"-">> \o d \o <<"-">>
      ELSE IF rooms[exitObj.to].terrain = "road" THEN <<"=">> \o d \o <<"=">>
      ELSE d

\* The entry of the exits line for one exit.
ExitEntry(direction, exitObj) ==
  LET d == IF HasDoor(exitObj)
           THEN IF "hidden" \notin exitObj.doorFlags
                THEN <<"(">> \o direction \o <<")">>
                ELSE <<"[">> \o direction \o <<"]">>
           ELSE direction
  IN  IF exitObj.to = death THEN <<"!", "!">> \o d \o <<"!", "!">>
      ELSE IF exitObj.to \notin DOMAIN rooms \/ exitObj.to = undefined
        THEN <<"?", "?">> \o d \o <<"?", "?">>
      ELSE IF rooms[exitObj.to].terrain = "road" THEN <<"=">> \o d \o <<"=">>
      ELSE IF "road" \in exitObj.exitFlags THEN <<"-">> \o d \o <<"-">>
      ELSE d

LookLines(st) ==
  LET room == rooms[st.currentRoom]
      order == SortExits(room.exits)
      doorDirs == SelectSeq(order, LAMBDA d : HasDoor(room.exits[d]))
      doorList == [i \in 1..Len(doorDirs) |->
                     DoorEntry(doorDirs[i], room.exits[doorDirs[i]])]
      exitList == [i \in 1..Len(order) |->
                     ExitEntry(order[i], room.exits[order[i]])]
      desc == SelectSeq([i \in 1..Len(room.desc) |-> Strip(room.desc[i])],
                        LAMBDA l : l # <<>>)
  IN  Output(<<Line("{0}", room.name)>>)
      \o (IF ~Get(st.config, "brief", TRUE)
          THEN Output(<<Line("{0}", Join(sp, desc))>>) ELSE <<>>)
      \o Output(<<Line("{0}", room.dynamicDesc)>>)
      \o (IF doorList # <<>>
          THEN <<Line("Doors:", NoStr)>>
               \o [i \in 1..Len(doorList) |->
                     Line("{0}", IF i < Len(doorList)
                                 THEN doorList[i] \o <<",">> ELSE doorList[i])]
          ELSE <<>>)
      \o <<Line("Exits: {0}",
                Join(<<",", " ">>,
                     IF exitList = <<>> THEN <<<<"N", "o", "n", "e", "!">>>>
                     ELSE exitList))>>
      \o (IF room.note # NoStr THEN <<Line("Note: {0}", room.note)>> ELSE <<>>)
      \o (IF Get(st.config, "show_vnum", TRUE)
          THEN <<Line("Vnum: {0}", st.currentRoom)>> ELSE <<>>)

look(st) ==
  IF st.currentRoom = None THEN Result(st, <<>>, <<>>, TRUE)
  ELSE Result(st, LookLines(st), <<st>>, FALSE)

(***************************************************************************)
(* EmulatedWorld.longExits                                                 *)
(***************************************************************************)
\* str.capitalize() of a direction
Capitalize(direction) ==
  CASE direction = north -> <<"N">> \o Tail(north)
    [] direction = east -> <<"E">> \o Tail(east)
    [] direction = south -> <<"S">> \o Tail(south)
    [] direction = west -> <<"W">> \o Tail(west)
    [] direction = up -> <<"U">> \o Tail(up)
    [] direction = down -> <<"D">> \o Tail(down)
    [] OTHER -> direction

LongExitLine(direction, exitObj) ==
  LET head == <<Capitalize(direction) \o <<":">>>>
      door == IF HasDoor(exitObj)
              THEN <<(IF "hidden" \notin exitObj.doorFlags
                      THEN <<"v", "i", "s", "i", "b", "l", "e">>
                      ELSE <<"h", "i", "d", "d", "e", "n">>)
                     \o <<" ", "(">>
                     \o (IF exitObj.door # NoStr THEN exitObj.door
                         ELSE <<"e", "x", "i", "t">>)
                     \o <<")", ",">>>>
              ELSE <<>>
      dest == IF IsDigit(exitObj.to) /\ exitObj.to \in DOMAIN rooms
              THEN <<rooms[exitObj.to].name \o <<",", " ">>
                     \o <<rooms[exitObj.to].terrain>>>>
              ELSE IF exitObj.to = death THEN <<death>>
              ELSE <<undefined>>
  IN  Line("{0}", Join(sp, head \o door \o dest))

\* Mutant of longExits: the test for a room without exits is missing.
longExits_NoPlaceholder(st) ==
  IF st.currentRoom = None
  THEN Result(st, <<Line("Exits:", NoStr)>>, <<>>, TRUE)
  ELSE LET room == rooms[st.currentRoom]
           order == SortExits(room.exits)
       IN  Result(st,
                  <<Line("Exits:", NoStr)>>
                  \o [i \in 1..Len(order) |->
                        LongExitLine(order[i], room.exits[order[i]])],
                  <<>>, FALSE)

longExits(st) ==
  IF st.currentRoom = None
  THEN Result(st, <<Line("Exits:", NoStr)>>, <<>>, TRUE)
  ELSE LET room == rooms[st.currentRoom]
           order == SortExits(room.exits)
       IN  IF DOMAIN room.exits = {}
           THEN Result(st, <<Line("Exits:", NoStr), Line("None!", NoStr)>>,
                       <<>>, FALSE)
           ELSE Result(st,
                       <<Line("Exits:", NoStr)>>
                       \o [i \in 1..Len(order) |->
                             LongExitLine(order[i], room.exits[order[i]])],
                       <<>>, FALSE)

(***************************************************************************)
(* EmulatedWorld.move                                                      *)
(***************************************************************************)
\* Lines 108-110: the token is a direction the current room has no exit for.
NoSuchExit(text, st) ==
  text \in DirectionSet /\ text \notin DOMAIN rooms[st.currentRoom].exits

\* Mutant of NoSuchExitResult: the branch lacks its return and goes on to
\* render the room.
NoSuchExitResult_Renders(st) ==
  LET shown == look(st)
  IN  Result(st, <<Line("Alas, you cannot go that way!", NoStr)>> \o shown.out,
             shown.looks, shown.raised)

\* Line 110: what move leaves behind when there is no such exit.
NoSuchExitResult(st) ==
  Result(st, <<Line("Alas, you cannot go that way!", NoStr)>>, <<>>, FALSE)

\* Lines 108-118: the token is no direction, no label and no number.
InvalidToken(text) ==
  text \notin DirectionSet /\ text \notin DOMAIN labels /\ ~IsDigit(text)

\* Lines 108-116: the vnum a valid token stands for.
Resolve(text, st) ==
  IF text \in DirectionSet THEN rooms[st.currentRoom].exits[text].to
  ELSE IF text \in DOMAIN labels THEN labels[text]
  ELSE text

\* Mutant of Arrive: last_vnum is stored only when the settings hold none.
Arrive_KeepsLastVnum(vnum, st) ==
  LET moved == Self(vnum, IF "last_vnum" \in DOMAIN st.config THEN st.config
                          ELSE SetItem(st.config, "last_vnum", vnum))
      shown == look(moved)
  IN  Result(moved, shown.out, shown.looks, shown.raised)

\* Mutant of Arrive: last_vnum is not stored.
Arrive_LastVnumNotStored(vnum, st) ==
  LET moved == Self(vnum, st.config)
      shown == look(moved)
  IN  Result(moved, shown.out, shown.looks, shown.raised)

\* Lines 125-127: the move into the room vnum.
Arrive(vnum, st) ==
  LET moved == Self(vnum, SetItem(st.config, "last_vnum", vnum))
      shown == look(moved)
  IN  Result(moved, shown.out, shown.looks, shown.raised)

\* Mutant of Settle: last_vnum is stored before the vnum is checked.
Settle_StoresBeforeChecks(vnum, st) ==
  LET stored == Self(st.currentRoom, SetItem(st.config, "last_vnum", vnum))
  IN  IF vnum = undefined
      THEN Result(stored, <<Line("Undefined room in that direction!", NoStr)>>,
                  <<>>, FALSE)
      ELSE IF vnum = death
      THEN Result(stored, <<Line("Deathtrap in that direction!", NoStr)>>, <<>>,
                  FALSE)
      ELSE IF vnum \notin DOMAIN rooms
      THEN Result(stored,
                  <<Line("Error: no rooms in the database with vnum ({0}).",
                         vnum)>>,
                  <<>>, FALSE)
      ELSE Arrive(vnum, st)

\* Mutant of Settle: last_vnum is stored between the sentinel checks and the
\* check of the room set.
Settle_StoresUnknown(vnum, st) ==
  IF vnum = undefined
  THEN Result(st, <<Line("Undefined room in that direction!", NoStr)>>, <<>>,
              FALSE)
  ELSE IF vnum = death
  THEN Result(st, <<Line("Deathtrap in that direction!", NoStr)>>, <<>>, FALSE)
  ELSE IF vnum \notin DOMAIN rooms
  THEN Result(Self(st.currentRoom, SetItem(st.config, "last_vnum", vnum)),
              <<Line("Error: no rooms in the database with vnum ({0}).", vnum)>>,
              <<>>, FALSE)
  ELSE Arrive(vnum, st)

\* Mutant of Settle: an unknown vnum falls back to the first room, as
\* __init__ does.
Settle_FallsBack(vnum, st) ==
  IF vnum = undefined
  THEN Result(st, <<Line("Undefined room in that direction!", NoStr)>>, <<>>,
              FALSE)
  ELSE IF vnum = death
  THEN Result(st, <<Line("Deathtrap in that direction!", NoStr)>>, <<>>, FALSE)
  ELSE IF vnum \notin DOMAIN rooms
  THEN Arrive(SortedFirst(DOMAIN rooms), st)
  ELSE Arrive(vnum, st)

\* Lines 119-127: the checks of the resolved vnum, then the move.
Settle(vnum, st) ==
  IF vnum = undefined
  THEN Result(st, <<Line("Undefined room in that direction!", NoStr)>>, <<>>,
              FALSE)
  ELSE IF vnum = death
  THEN Result(st, <<Line("Deathtrap in that direction!", NoStr)>>, <<>>, FALSE)
  ELSE IF vnum \notin DOMAIN rooms
  THEN Result(st,
              <<Line("Error: no rooms in the database with vnum ({0}).", vnum)>>,
              <<>>, FALSE)
  ELSE Arrive(vnum, st)

move(text, st) ==
  IF text \in DirectionSet /\ st.currentRoom = None
  THEN Result(st, <<>>, <<>>, TRUE)
  ELSE IF NoSuchExit(text, st) THEN NoSuchExitResult(st)
  ELSE IF InvalidToken(text)
  THEN Result(st, <<Line("Error: {0} isn't a direction, label, or vnum.", text)>>,
              <<>>, FALSE)
  ELSE Settle(Resolve(text, st), st)

(***************************************************************************)
(* EmulatedWorld.toggleSetting                                             *)
(***************************************************************************)
\* Mutant of Toggled: an absent setting counts as False.
Toggled_DefaultFalse(cfg, setting) == Get(cfg, setting, FALSE) = FALSE

\* The value toggleSetting stores and returns.
Toggled(cfg, setting) == Get(cfg, setting, TRUE) = FALSE

toggleSetting(setting, st) ==
  Self(st.currentRoom, SetItem(st.config, setting, Toggled(st.config, setting)))

(***************************************************************************)
(* EmulatedWorld.loadConfig and saveConfig                                 *)
(***************************************************************************)
\* getConfig(fileName): the dictionary read
getConfig(file) == IF file.kind = "file" THEN JsonLoad(file.data) ELSE EmptyDict

\* getConfig(fileName): the lines written
getConfigLines(file) ==
  IF file.kind = "corrupt"
  THEN <<Line("Corrupted configuration file: {0}", NoStr)>>
  ELSE IF file.kind = "dir"
  THEN <<Line("Error: '{0}' is a directory, not a file.", NoStr)>>
  ELSE <<>>

\* Mutant of loadConfig: the two layers are merged in the other order.
loadConfig_SampleWins(cfg, sample, user) ==
  Update(Update(cfg, getConfig(user)), getConfig(sample))

loadConfig(cfg, sample, user) == Update(Update(cfg, getConfig(sample)), getConfig(user))

saveConfig(cfg) == [kind |-> "file", data |-> JsonDump(cfg)]

\* codecs.open(self.configFile, "wb", "utf-8") raises on a directory.
saveConfigRaises(file) == file.kind = "dir"

(***************************************************************************)
(* EmulatedWorld.__init__                                                  *)
(***************************************************************************)
\* The vnum __init__ hands to move.
InitialVnum(cfg) ==
  LET lastVnum == Get(cfg, "last_vnum", <<"0">>)
  IN  IF lastVnum \notin DOMAIN rooms THEN SortedFirst(DOMAIN rooms) ELSE lastVnum

init(sample, user) ==
  LET cfg == loadConfig(EmptyDict, sample, user)
      moved == move(InitialVnum(cfg), Self(None, cfg))
  IN  [moved EXCEPT
         !.out = <<Line("Welcome to Mume Map Emulation!", NoStr),
                   Line("Loading the world database.", NoStr),
                   Line("Loaded {0} rooms.", NoStr)>>
                 \o getConfigLines(sample) \o getConfigLines(user) \o @]

(***************************************************************************)
(* EmulatedWorld.parseInput                                                *)
(***************************************************************************)
\* match.group("command") of ^(?P<command>\S+)(?:\s+(?P<arguments>.*))?
Command(line) ==
  LET i == FindChar(line, " ", 1)
  IN  IF i = 0 THEN line ELSE SubSeq(line, 1, i - 1)

\* match.group("arguments"), None when the line has no second part
Arguments(line) ==
  LET i == FindChar(line, " ", 1)
  IN  IF i = 0 THEN None ELSE LStrip(SubSeq(line, i, Len(line)))

\* Mutant of Direction: the abbreviation is passed on as it was typed.
Direction_AsTyped(command) ==
  IF \E i \in 1..Len(DIRECTIONS) : StartsWith(DIRECTIONS[i], command)
  THEN command ELSE <<>>

\* "".join(dir for dir in DIRECTIONS if dir.startswith(command))
Direction(command) ==
  Join(<<>>, SelectSeq(DIRECTIONS, LAMBDA dir : StartsWith(dir, command)))

\* World.pathFind and createSpeedWalk, rlabel, rinfo, the editing verbs and
\* saveRooms: what the collaborator writes.
Collaborator(name, arguments) == <<Line(name, arguments)>>

\* A result of move, look or longExits as the result of parseInput.
Handled(res, name, arg) ==
  [currentRoom |-> res.currentRoom, config |-> res.config, out |-> res.out,
   looks |-> res.looks, raised |-> res.raised, handler |-> name,
   moveArg |-> arg]

\* The branch of a setting command: toggle, then report the stored value.
Toggle(st, setting, name, enabled, disabled) ==
  LET after == toggleSetting(setting, st)
  IN  Handled(Result(after,
                     <<Line(IF after.config[setting] THEN enabled ELSE disabled,
                            NoStr)>>,
                     <<>>, FALSE),
              name, None)

\* Mutant of Branch: the test for 'exits' comes before the directions.
Branch_ExitsFirst(command) ==
  IF StartsWith(wExits, command) THEN "exits"
  ELSE IF Direction(command) # <<>> THEN "direction"
  ELSE IF StartsWith(wLook, command) THEN "look"
  ELSE IF command = wVnum THEN "vnum"
  ELSE IF command = wBrief THEN "brief"
  ELSE IF command = wTerrain THEN "terrain"
  ELSE IF command = wPath THEN "path"
  ELSE IF command = wRlabel THEN "rlabel"
  ELSE IF command = wRinfo THEN "rinfo"
  ELSE IF command \in EditVerbs THEN "edit"
  ELSE IF command = wSavemap THEN "savemap"
  ELSE IF IsDigit(command) \/ command \in DOMAIN labels THEN "vnum_or_label"
  ELSE "fallback"

\* Mutant of Branch: the guard of the last elif is missing, so any other
\* command is handed to move.
Branch_MovesUnknown(command) ==
  IF Direction(command) # <<>> THEN "direction"
  ELSE IF StartsWith(wLook, command) THEN "look"
  ELSE IF StartsWith(wExits, command) THEN "exits"
  ELSE IF command = wVnum THEN "vnum"
  ELSE IF command = wBrief THEN "brief"
  ELSE IF command = wTerrain THEN "terrain"
  ELSE IF command = wPath THEN "path"
  ELSE IF command = wRlabel THEN "rlabel"
  ELSE IF command = wRinfo THEN "rinfo"
  ELSE IF command \in EditVerbs THEN "edit"
  ELSE IF command = wSavemap THEN "savemap"
  ELSE "vnum_or_label"

\* Lines 167-208: the branch of the if/elif chain a command takes.
Branch(command) ==
  IF Direction(command) # <<>> THEN "direction"
  ELSE IF StartsWith(wLook, command) THEN "look"
  ELSE IF StartsWith(wExits, command) THEN "exits"
  ELSE IF command = wVnum THEN "vnum"
  ELSE IF command = wBrief THEN "brief"
  ELSE IF command = wTerrain THEN "terrain"
  ELSE IF command = wPath THEN "path"
  ELSE IF command = wRlabel THEN "rlabel"
  ELSE IF command = wRinfo THEN "rinfo"
  ELSE IF command \in EditVerbs THEN "edit"
  ELSE IF command = wSavemap THEN "savemap"
  ELSE IF IsDigit(command) \/ command \in DOMAIN labels THEN "vnum_or_label"
  ELSE "fallback"

\* Lines 183-195: the body of the path branch.
Path(arguments, st) ==
  IF arguments = None \/ arguments = <<>>
  THEN Result(st, Collaborator("pathFind", NoStr), <<>>, FALSE)
  ELSE IF ~RunDestinationMatches(arguments)
  THEN Result(st, <<>>, <<>>, TRUE)
  ELSE Result(st, Collaborator("pathFind", arguments), <<>>, FALSE)

parseInput(line, st) ==
  LET command == Command(line)
      arguments == Arguments(line)
      direction == Direction(command)
      branch == Branch(command)
      said(lines) == Result(st, lines, <<>>, FALSE)
  IN  CASE branch = "direction"
             -> Handled(move(direction, st), branch, direction)
        [] branch = "look" -> Handled(look(st), branch, None)
        [] branch = "exits" -> Handled(longExits(st), branch, None)
        [] branch = "vnum"
             -> Toggle(st, "show_vnum", branch, "Show room vnum enabled.",
                       "Show room vnum disabled.")
        [] branch = "brief"
             -> Toggle(st, "brief", branch, "Brief mode enabled.",
                       "Brief mode disabled.")
        [] branch = "terrain"
             -> Toggle(st, "use_terrain_symbols", branch,
                       "Terrain symbols in prompt enabled.",
                       "Terrain symbols in prompt disabled.")
        [] branch = "path" -> Handled(Path(arguments, st), branch, None)
        [] branch = "rlabel"
             -> Handled(said(Collaborator("rlabel", arguments)), branch, None)
        [] branch = "rinfo"
             -> Handled(said(Collaborator("rinfo", arguments)), branch, None)
        [] branch = "edit"
             -> Handled(said(Collaborator("edit", arguments)), branch, None)
        [] branch = "savemap"
             -> Handled(said(Collaborator("saveRooms", NoStr)), branch, None)
        [] branch = "vnum_or_label"
             -> Handled(move(command, st), branch, command)
        [] OTHER
             -> Handled(said(<<Line("Arglebargle, glop-glyf!?!", NoStr)>>),
                        branch, None)

(***************************************************************************)
(* Emulator.run                                                            *)
(***************************************************************************)
\* The prompt of one turn of the loop: the terrain of the current room, as
\* its TERRAIN_SYMBOLS glyph when use_terrain_symbols is set.
Prompt(st) ==
  [symbol |-> Get(st.config, "use_terrain_symbols", FALSE) = TRUE,
   terrain |-> rooms[st.currentRoom].terrain]

\* The lines typed at the prompt.
RawInputs ==
  { <<"n">>, north, <<" ", "N", " ">>, <<"e">>, <<"s">>, <<"w">>, <<"u">>,
    <<"d">>, <<"l">>, wLook, <<"e", "x">>, wExits, wVnum, wBrief, wTerrain,
    wPath, wPath \o sp \o <<"x">>, wPath \o sp \o <<"x", "|", "f">>,
    wPath \o sp \o <<"|">>, wRlabel, wRinfo, wRnote \o sp \o <<"x">>,
    wSavemap, r2, r3, r9, r10, wHome, wLost, wPit, wVoid, wXyzzy,
    <<>>, <<" ">>, <<"q">>, <<"Q">>, wQuit }

Init ==
  \E sc \in Scenarios :
    /\ rooms = sc.rooms
    /\ labels = sc.labels
    /\ sampleConfigFile = sc.sample
    /\ configFile = sc.user
    /\ use_gui = sc.use_gui
    /\ config = EmptyDict
    /\ currentRoom = None
    /\ pc = "boot"
    /\ gui_queue = <<>>
    /\ gui_queue_lock = "free"
    /\ puts = 0
    /\ userInput = None
    /\ out = <<>>
    /\ handler = "none"
    /\ moveArg = None
    /\ looks = <<>>

\* Emulator.__init__: the world is constructed.
Startup ==
  /\ pc = "boot"
  /\ LET res == init(sampleConfigFile, configFile)
     IN  /\ config' = res.config
         /\ currentRoom' = res.currentRoom
         /\ out' = res.out
         /\ looks' = res.looks
         /\ moveArg' = InitialVnum(loadConfig(EmptyDict, sampleConfigFile, configFile))
         /\ pc' = IF res.raised THEN "crashed" ELSE "prompt"
  /\ handler' = "init"
  /\ UNCHANGED <<rooms, labels, sampleConfigFile, configFile, use_gui,
                 gui, userInput>>

\* The prompt is composed from a current room that was never set.
PromptFails ==
  /\ pc = "prompt"
  /\ currentRoom = None
  /\ pc' = "crashed"
  /\ out' = <<>>
  /\ looks' = <<>>
  /\ handler' = "none"
  /\ moveArg' = None
  /\ UNCHANGED <<rooms, labels, sampleConfigFile, configFile, use_gui, config,
                 currentRoom, gui, userInput>>

\* An empty line: continue.
EmptyLine(raw) ==
  /\ pc = "prompt"
  /\ currentRoom # None
  /\ Lower(Strip(raw)) = <<>>
  /\ userInput' = Lower(Strip(raw))
  /\ out' = <<>>
  /\ looks' = <<>>
  /\ handler' = "none"
  /\ moveArg' = None
  /\ UNCHANGED <<rooms, labels, sampleConfigFile, configFile, use_gui, config,
                 currentRoom, pc, gui>>

\* A prefix of "quit": break.
QuitLine(raw) ==
  /\ pc = "prompt"
  /\ currentRoom # None
  /\ Lower(Strip(raw)) # <<>>
  /\ StartsWith(wQuit, Lower(Strip(raw)))
  /\ userInput' = Lower(Strip(raw))
  /\ pc' = "quit"
  /\ out' = <<>>
  /\ looks' = <<>>
  /\ handler' = "none"
  /\ moveArg' = None
  /\ UNCHANGED <<rooms, labels, sampleConfigFile, configFile, use_gui, config,
                 currentRoom, gui>>

\* Any other line: wld.parseInput(userInput).
CommandLine(raw) ==
  /\ pc = "prompt"
  /\ currentRoom # None
  /\ Lower(Strip(raw)) # <<>>
  /\ ~StartsWith(wQuit, Lower(Strip(raw)))
  /\ LET res == parseInput(Lower(Strip(raw)), Self(currentRoom, config))
     IN  /\ config' = res.config
         /\ currentRoom' = res.currentRoom
         /\ out' = res.out
         /\ looks' = res.looks
         /\ handler' = res.handler
         /\ moveArg' = res.moveArg
         /\ pc' = IF res.raised THEN "crashed" ELSE "prompt"
  /\ userInput' = Lower(Strip(raw))
  /\ UNCHANGED <<rooms, labels, sampleConfigFile, configFile, use_gui,
                 gui>>

\* After the loop: wld.saveConfig()
SaveConfig ==
  /\ pc = "quit"
  /\ configFile' = IF saveConfigRaises(configFile) THEN configFile
                   ELSE saveConfig(config)
  /\ pc' = IF saveConfigRaises(configFile) THEN "crashed" ELSE "saved"
  /\ out' = <<>>
  /\ UNCHANGED <<rooms, labels, sampleConfigFile, use_gui, config, currentRoom,
                 gui, userInput, handler, moveArg, looks>>

\* Mutant of Farewell: the test of self._use_gui is missing.
Farewell_AlwaysSignals ==
  /\ pc = "saved"
  /\ out' = <<Line("Good bye.", NoStr)>>
  /\ pc' = "signal"
  /\ UNCHANGED <<rooms, labels, sampleConfigFile, configFile, use_gui, config,
                 currentRoom, gui, userInput, handler, moveArg, looks>>

\* wld.output("Good bye.")
Farewell ==
  /\ pc = "saved"
  /\ out' = <<Line("Good bye.", NoStr)>>
  /\ pc' = IF use_gui THEN "signal" ELSE "done"
  /\ UNCHANGED <<rooms, labels, sampleConfigFile, configFile, use_gui, config,
                 currentRoom, gui, userInput, handler, moveArg, looks>>

\* with wld._gui_queue_lock: the lock is acquired once it is free
AcquireGuiLock ==
  /\ pc = "signal"
  /\ gui_queue_lock = "free"
  /\ gui_queue_lock' = "emulator"
  /\ pc' = "locked"
  /\ out' = <<>>
  /\ UNCHANGED <<rooms, labels, sampleConfigFile, configFile, use_gui, config,
                 currentRoom, gui_queue, puts, userInput, handler, moveArg,
                 looks>>

\* wld._gui_queue.put(None)
SignalGui ==
  /\ pc = "locked"
  /\ gui_queue' = Append(gui_queue, None)
  /\ puts' = puts + 1
  /\ pc' = "unlock"
  /\ UNCHANGED <<rooms, labels, sampleConfigFile, configFile, use_gui, config,
                 currentRoom, gui_queue_lock, userInput, out, handler, moveArg,
                 looks>>

\* The end of the with block: the lock is released and run returns.
ReleaseGuiLock ==
  /\ pc = "unlock"
  /\ gui_queue_lock' = "free"
  /\ pc' = "done"
  /\ UNCHANGED <<rooms, labels, sampleConfigFile, configFile, use_gui, config,
                 currentRoom, gui_queue, puts, userInput, out, handler, moveArg,
                 looks>>

Next ==
  \/ Startup
  \/ PromptFails
  \/ \E raw \in RawInputs : EmptyLine(raw)
  \/ \E raw \in RawInputs : QuitLine(raw)
  \/ \E raw \in RawInputs : CommandLine(raw)
  \/ SaveConfig
  \/ Farewell
  \/ AcquireGuiLock
  \/ SignalGui
  \/ ReleaseGuiLock

Spec == Init /\ [][Next]_vars

(***************************************************************************)
(* A second specification: move is also called directly, with any token.   *)
(***************************************************************************)
MoveTokens ==
  { north, east, south, up, wHome, wLost, wPit, wVoid, r2, r3, r7, r9, r10,
    wXyzzy, <<"n">>, <<"n", "e">>, <<"3", "a">>, <<>> }

\* world.move(text), called from outside the interpreter
MoveCall(text) ==
  /\ pc = "prompt"
  /\ currentRoom # None
  /\ LET res == move(text, Self(currentRoom, config))
     IN  /\ config' = res.config
         /\ currentRoom' = res.currentRoom
         /\ out' = res.out
         /\ looks' = res.looks
         /\ pc' = IF res.raised THEN "crashed" ELSE "prompt"
  /\ handler' = "call"
  /\ moveArg' = text
  /\ userInput' = None
  /\ UNCHANGED <<rooms, labels, sampleConfigFile, configFile, use_gui,
                 gui>>

NextMove ==
  \/ Next
  \/ \E text \in MoveTokens : MoveCall(text)

SpecMove == Init /\ [][NextMove]_vars

(***************************************************************************)
(* A third specification: the presentation layer runs beside the           *)
(* interpreter thread and polls the queue under the same lock.             *)
(***************************************************************************)
\* The presentation layer takes the lock to read the queue.
GuiAcquire ==
  /\ use_gui
  /\ pc # "boot"
  /\ gui_queue_lock = "free"
  /\ gui_queue_lock' = "gui"
  /\ UNCHANGED <<rooms, labels, sampleConfigFile, configFile, use_gui, config,
                 currentRoom, pc, gui_queue, puts, userInput, out, handler,
                 moveArg, looks>>

\* The presentation layer has read what was queued and releases the lock.
GuiRelease ==
  /\ gui_queue_lock = "gui"
  /\ gui_queue' = <<>>
  /\ gui_queue_lock' = "free"
  /\ UNCHANGED <<rooms, labels, sampleConfigFile, configFile, use_gui, config,
                 currentRoom, pc, puts, userInput, out, handler, moveArg,
                 looks>>

NextGui ==
  \/ Next
  \/ GuiAcquire
  \/ GuiRelease

SpecGui == Init /\ [][NextGui]_vars

(***************************************************************************)
(* Properties                                                              *)
(***************************************************************************)
\* The steps that call move, by the value they leave in handler.
MoveHandlers == {"init", "direction", "vnum_or_label", "call"}

Started == pc # "boot"

NoDestination == <<"<no destination>">>

\* The destination a token stands for in a room: the exit's destination for
\* a direction, the labelled vnum for a label, the token itself for a number.
Destination(token, room) ==
  IF token \in DirectionSet
  THEN IF room # None /\ token \in DOMAIN rooms[room].exits
       THEN rooms[room].exits[token].to ELSE NoDestination
  ELSE IF token \in DOMAIN labels THEN labels[token]
  ELSE IF IsDigit(token) THEN token
  ELSE NoDestination

\* The last line written, NoLine if none was.
NoLine == Line("", NoStr)
LastLine(lines) == IF lines = <<>> THEN NoLine ELSE lines[Len(lines)]

\* The lines move wrote in a step: __init__ writes its own lines first.
MoveLines(h, lines) == IF h = "init" /\ lines # <<>> THEN <<LastLine(lines)>> ELSE lines

\* The settings a step's call of move starts from: __init__ loads them before
\* it calls move.
SettingsBefore(h) ==
  IF h = "init" THEN loadConfig(EmptyDict, sampleConfigFile, configFile)
  ELSE config

\* C1: after startup, whatever lines were typed, the current room's
\* identifier is a key of the room set.
C1_CurrentRoomIsKnown == Started => currentRoom \in DOMAIN rooms

\* C2: when the token of a move resolves to a key of the room set (so neither
\* 'undefined' nor 'death'), the current room and last_vnum become that
\* identifier and look() runs once, after both assignments.
C2_MoveSucceeds ==
  [][(handler' \in MoveHandlers
      /\ Destination(moveArg', currentRoom) \in DOMAIN rooms)
     => LET dest == Destination(moveArg', currentRoom)
        IN  /\ currentRoom' = dest
            /\ "last_vnum" \in DOMAIN config'
            /\ config' = SetItem(SettingsBefore(handler'), "last_vnum", dest)
            /\ looks' = <<Self(dest, config')>>]_vars

C2_Witness ==
  /\ handler = "direction"
  /\ moveArg = north
  /\ currentRoom = r3
  /\ looks = <<Self(r3, config)>>
  /\ config["last_vnum"] = r3

\* C3: a move in a direction the current room has no exit for leaves the
\* current room and the settings as they were, writes exactly the line
\* 'Alas, you cannot go that way!' and renders nothing.
C3_NoSuchExit ==
  [][(handler' \in MoveHandlers
      /\ moveArg' \in DirectionSet
      /\ currentRoom # None
      /\ moveArg' \notin DOMAIN rooms[currentRoom].exits)
     => /\ currentRoom' = currentRoom
        /\ config' = config
        /\ out' = <<Line("Alas, you cannot go that way!", NoStr)>>
        /\ looks' = <<>>]_vars

C3_Witness ==
  /\ handler = "direction"
  /\ moveArg = up
  /\ currentRoom = r2
  /\ out = <<Line("Alas, you cannot go that way!", NoStr)>>

\* C4: a move whose destination is 'death' or 'undefined', through an exit or
\* through a label, leaves the current room and the settings as they were and
\* writes only the deathtrap or undefined-room message.
C4_Sentinels ==
  [][(handler' \in MoveHandlers
      /\ Destination(moveArg', currentRoom) \in {death, undefined})
     => /\ currentRoom' = currentRoom
        /\ config' = SettingsBefore(handler')
        /\ looks' = <<>>
        /\ MoveLines(handler', out')
             = <<Line(IF Destination(moveArg', currentRoom) = death
                      THEN "Deathtrap in that direction!"
                      ELSE "Undefined room in that direction!", NoStr)>>]_vars

C4_Witness ==
  \/ /\ handler = "direction"
     /\ moveArg = east
     /\ currentRoom = r2
     /\ out = <<Line("Deathtrap in that direction!", NoStr)>>
  \/ /\ handler = "vnum_or_label"
     /\ moveArg = wVoid
     /\ out = <<Line("Undefined room in that direction!", NoStr)>>

\* C5: a move whose token is no direction, no known label and not numeric,
\* or whose destination is not a key of the room set, writes an error line
\* and changes neither the current room nor any setting.
C5_ErrorsMutateNothing ==
  [][(handler' \in MoveHandlers
      /\ \/ InvalidToken(moveArg')
         \/ /\ Destination(moveArg', currentRoom) # NoDestination
            /\ Destination(moveArg', currentRoom)
                 \notin DOMAIN rooms \cup {death, undefined})
     => /\ currentRoom' = currentRoom
        /\ config' = SettingsBefore(handler')
        /\ looks' = <<>>
        /\ MoveLines(handler', out')
             = <<IF InvalidToken(moveArg')
                 THEN Line("Error: {0} isn't a direction, label, or vnum.",
                           moveArg')
                 ELSE Line("Error: no rooms in the database with vnum ({0}).",
                           Destination(moveArg', currentRoom))>>]_vars

C5_Witness ==
  /\ handler = "call"
  /\ moveArg = wXyzzy
  /\ currentRoom # None
  /\ out = <<Line("Error: {0} isn't a direction, label, or vnum.", wXyzzy)>>

C5_WitnessUnknownRoom ==
  /\ handler = "vnum_or_label"
  /\ moveArg = wLost
  /\ out = <<Line("Error: no rooms in the database with vnum ({0}).", r9)>>

\* The room the session is to start in: the persisted last_vnum if it is a
\* key of the room set, else the smallest key as strings are ordered.
ExpectedStart ==
  LET persisted == loadConfig(EmptyDict, sampleConfigFile, configFile)
  IN  IF "last_vnum" \in DOMAIN persisted /\ persisted["last_vnum"] \in DOMAIN rooms
      THEN persisted["last_vnum"]
      ELSE SortedFirst(DOMAIN rooms)

\* C6: after startup the current room is set: it is the room of the persisted
\* last_vnum if that is a key of the room set, else the room with the
\* smallest identifier, whatever the labels and the loaded settings are, and
\* that room was rendered exactly once.
C6_StartupRoom ==
  handler = "init"
    => /\ currentRoom # None
       /\ currentRoom = ExpectedStart
       /\ looks = <<Self(ExpectedStart, config)>>

\* C7: only a successful move changes the current room: look, exits, the
\* setting commands, an unrecognized command and every failed move leave it
\* as it was.
C7_OnlyMovesChangeRoom ==
  [][currentRoom' # currentRoom
     => /\ handler' \in MoveHandlers
        /\ Destination(moveArg', currentRoom) \in DOMAIN rooms
        /\ currentRoom' = Destination(moveArg', currentRoom)]_vars

C7_Witness ==
  /\ handler = "exits"
  /\ userInput = <<"e", "x">>
  /\ currentRoom = r2
  /\ Len(out) > 1

\* The rules of the interpreter in their order, and what each matches.
Rules ==
  <<"direction", "look", "exits", "setting", "path", "edit", "savemap",
    "vnum_or_label", "fallback">>

RuleMatches(rule, command) ==
  CASE rule = "direction" -> \E d \in DirectionSet : StartsWith(d, command)
    [] rule = "look" -> StartsWith(wLook, command)
    [] rule = "exits" -> StartsWith(wExits, command)
    [] rule = "setting" -> command \in {wVnum, wBrief, wTerrain}
    [] rule = "path" -> command = wPath
    [] rule = "edit" -> command \in EditVerbs \cup {wRlabel, wRinfo}
    [] rule = "savemap" -> command = wSavemap
    [] rule = "vnum_or_label" -> IsDigit(command) \/ command \in DOMAIN labels
    [] OTHER -> TRUE

FirstRule(command) ==
  LET first == CHOOSE i \in 1..Len(Rules) :
                 /\ RuleMatches(Rules[i], command)
                 /\ \A j \in 1..(i - 1) : ~RuleMatches(Rules[j], command)
  IN  Rules[first]

\* The rule a branch of parseInput belongs to.
RuleOf(h) ==
  CASE h \in {"vnum", "brief", "terrain"} -> "setting"
    [] h \in {"rlabel", "rinfo", "edit"} -> "edit"
    [] OTHER -> h

\* The last step dispatched a line to parseInput.
Dispatched == handler \notin {"none", "init", "call"}

\* C8: the handler that runs for a command is the one of the first rule, in
\* the fixed order, that the command matches, and no other; a prefix of a
\* direction is a move in that direction even if it is also a prefix of
\* 'exits' or 'look', or a label.
C8_FirstRuleWins ==
  Dispatched
    => LET command == Command(userInput)
       IN  /\ RuleOf(handler) = FirstRule(command)
           /\ handler = "vnum" => command = wVnum
           /\ handler = "brief" => command = wBrief
           /\ handler = "terrain" => command = wTerrain
           /\ (\E d \in DirectionSet : StartsWith(d, command))
                => /\ handler = "direction"
                   /\ moveArg \in DirectionSet
                   /\ StartsWith(moveArg, command)
           /\ handler # "direction" /\ handler # "vnum_or_label"
                => moveArg = None

C8_Witness ==
  /\ userInput = <<"e">>
  /\ handler = "direction"
  /\ moveArg = east
  /\ currentRoom = r2
  /\ out = <<Line("Deathtrap in that direction!", NoStr)>>

\* The first direction, in canonical order, that starts with the command.
FirstDirection(command) ==
  DIRECTIONS[CHOOSE i \in 1..Len(DIRECTIONS) :
               /\ StartsWith(DIRECTIONS[i], command)
               /\ \A j \in 1..(i - 1) : ~StartsWith(DIRECTIONS[j], command)]

C10_PathReturns ==
  (handler = "path" /\ Arguments(userInput) # None)
    => /\ pc = "prompt"
       /\ out # <<>>


\* C11: a command that matches none of the rules writes exactly the fallback
\* line, changes neither the current room nor any setting, and the loop
\* prompts again.
C11_Fallback ==
  [][(handler' \notin {"none", "init", "call"}
      /\ FirstRule(Command(userInput')) = "fallback")
     => /\ handler' = "fallback"
        /\ out' = <<Line("Arglebargle, glop-glyf!?!", NoStr)>>
        /\ looks' = <<>>
        /\ currentRoom' = currentRoom
        /\ config' = config
        /\ configFile' = configFile
        /\ pc' = "prompt"]_vars

C11_Witness ==
  /\ userInput = wXyzzy
  /\ handler = "fallback"
  /\ pc = "prompt"
  /\ out = <<Line("Arglebargle, glop-glyf!?!", NoStr)>>


\* C12: in the interpreter loop an empty line is not dispatched and changes
\* nothing; a non-empty prefix of "quit" ends the loop without being
\* dispatched; every other line is dispatched once and the loop prompts again,
\* so the loop is left only on a quit line.
C12_LoopEndsOnlyOnQuit ==
  [][pc = "prompt" =>
       /\ (currentRoom # None /\ userInput' = <<>>) =>
            /\ handler' = "none"
            /\ pc' = "prompt"
            /\ currentRoom' = currentRoom /\ config' = config
       /\ (currentRoom # None /\ userInput' # <<>>
             /\ StartsWith(wQuit, userInput')) =>
            /\ handler' = "none"
            /\ pc' = "quit"
       /\ (currentRoom # None /\ userInput' # <<>>
             /\ ~StartsWith(wQuit, userInput')) =>
            /\ handler' \notin {"none", "init", "call"}
            /\ pc' = "prompt"
       /\ pc' # "prompt" =>
            /\ pc' = "quit"
            /\ userInput' # <<>> /\ StartsWith(wQuit, userInput')]_vars


\* C13: on termination the settings are saved first, then the farewell is
\* written, then, only with a presentation layer attached, the termination
\* token is put on its queue while the interpreter holds the queue lock; the
\* token is put at most once, never while commands are still read, and never
\* without a presentation layer.
C13_TerminationSignal ==
  [][/\ (pc' = "saved" /\ pc # "saved") =>
          /\ pc = "quit"
          /\ configFile' = saveConfig(config)
     /\ (pc # "saved" /\ pc' \in {"signal", "locked", "unlock", "done"}) =>
          /\ pc \in {"signal", "locked", "unlock", "done"}
          /\ out' \in {out, <<>>}
     /\ (out' # out /\ Line("Good bye.", NoStr) \in
                          {out'[i] : i \in DOMAIN out'}) => pc = "saved"
     /\ (pc = "saved" /\ pc' # "saved") =>
          /\ out' = <<Line("Good bye.", NoStr)>>
          /\ configFile = saveConfig(config)
          /\ pc' = IF use_gui THEN "signal" ELSE "done"
          /\ puts' = 0
     /\ (pc' = "locked" /\ pc # "locked") => pc = "signal"
     /\ puts' # puts =>
          /\ use_gui
          /\ pc = "locked"
          /\ gui_queue_lock = "emulator" /\ gui_queue_lock' = "emulator"
          /\ gui_queue' = Append(gui_queue, None)
          /\ puts = 0 /\ puts' = 1
     /\ (gui_queue' # gui_queue /\ puts' = puts) => gui_queue_lock = "gui"
     /\ (gui_queue_lock' # gui_queue_lock /\ pc' = pc) =>
          "emulator" \notin {gui_queue_lock, gui_queue_lock'}
     /\ (pc' = "done" /\ pc = "unlock") =>
          /\ puts' = 1
          /\ gui_queue_lock = "emulator" /\ gui_queue_lock' = "free"
     /\ pc' \in {"boot", "prompt", "quit", "saved", "signal", "crashed"}
          => puts' = 0
     /\ ~use_gui => (puts' = 0 /\ gui_queue' = <<>>)]_vars

\* The interpreter has returned after putting the token while the
\* presentation layer was also taking the lock.
C13_Witness ==
  /\ use_gui
  /\ pc = "done"
  /\ puts = 1
  /\ gui_queue_lock = "gui"
  /\ gui_queue = <<None>>
  /\ configFile = saveConfig(config)


\* The setting a setting command toggles, and the line it writes for a status.
SettingOf(h) ==
  CASE h = "vnum" -> "show_vnum"
    [] h = "brief" -> "brief"
    [] h = "terrain" -> "use_terrain_symbols"

StatusLine(h, status) ==
  CASE h = "vnum" -> Line(IF status THEN "Show room vnum enabled."
                                    ELSE "Show room vnum disabled.", NoStr)
    [] h = "brief" -> Line(IF status THEN "Brief mode enabled."
                                     ELSE "Brief mode disabled.", NoStr)
    [] h = "terrain" -> Line(IF status THEN "Terrain symbols in prompt enabled."
                                       ELSE "Terrain symbols in prompt disabled.",
                             NoStr)

\* C14: for show_vnum, brief and use_terrain_symbols, whether the setting was
\* true, false or absent (then defaulting to true), a toggle stores the
\* opposite value, a second toggle stores the value the setting had or
\* defaulted to before the first, and each toggle returns the value it stored.
C14_ToggleTwice ==
  [][handler' \in {"vnum", "brief", "terrain"} =>
       LET s == SettingOf(handler')
           before == Get(config, s, TRUE)
           once == Self(currentRoom', config')
           twice == toggleSetting(s, once)
       IN  /\ s \in DOMAIN config'
           /\ config'[s] = ~before
           /\ out' = <<StatusLine(handler', config'[s])>>
           /\ twice.config[s] = before
           /\ Toggled(once.config, s) = twice.config[s]
           /\ \A k \in DOMAIN config' \ {s} :
                k \in DOMAIN config /\ config'[k] = config[k]
           /\ DOMAIN twice.config = DOMAIN config']_vars

\* show_vnum was absent and has been toggled an even number of times.
C14_Witness ==
  /\ sampleConfigFile = Absent
  /\ configFile = Absent
  /\ handler = "vnum"
  /\ "show_vnum" \in DOMAIN config
  /\ config["show_vnum"] = TRUE
  /\ out = <<StatusLine("vnum", TRUE)>>


\* The settings have been saved at shutdown.
Saved == pc \in {"saved", "signal", "locked", "unlock", "done"}

\* C15: once the settings are saved at shutdown, loading them (the sample
\* layer first, the user layer second, the user layer winning) gives a
\* mapping equal to the one saved, last_vnum included.
C15_SaveLoadRoundTrip ==
  Saved =>
    /\ configFile = saveConfig(config)
    /\ getConfig(configFile) = config
    /\ loadConfig(EmptyDict, sampleConfigFile, configFile) = config
    /\ "last_vnum" \in DOMAIN config
    /\ loadConfig(EmptyDict, sampleConfigFile, configFile)["last_vnum"]
         = config["last_vnum"]

\* A saved mapping that overrides the sample layer's show_vnum and holds a
\* last_vnum other than the one loaded at startup.
C15_Witness ==
  /\ pc = "done"
  /\ sampleConfigFile = File("show_vnum" :> FALSE)
  /\ config["show_vnum"] = TRUE
  /\ config["brief"] = FALSE
  /\ config["last_vnum"] = r3
  /\ configFile = saveConfig(config)


\* The last step rendered a room.
Rendered == looks # <<>>

\* The lines of the last step with a given format.
LinesOf(text) == SelectSeq(out, LAMBDA l : l.text = text)

\* The outer marker of an exit, by precedence; empty for none.
Marker(e) ==
  CASE e.to = death -> <<"!", "!">>
    [] e.to # death /\ (e.to = undefined \/ e.to \notin DOMAIN rooms)
         -> <<"?", "?">>
    [] e.to # death /\ e.to # undefined /\ e.to \in DOMAIN rooms
         /\ rooms[e.to].terrain = "road" -> <<"=">>
    [] e.to # death /\ e.to # undefined /\ e.to \in DOMAIN rooms
         /\ rooms[e.to].terrain # "road" /\ "road" \in e.exitFlags -> <<"-">>
    [] OTHER -> <<>>

\* The token of an exit: the direction, in the brackets of its door, between
\* two copies of the marker.
Token(dir, e) ==
  LET door == e.door # NoStr \/ "door" \in e.exitFlags
      inner == CASE door /\ "hidden" \notin e.doorFlags
                      -> <<"(">> \o dir \o <<")">>
                 [] door /\ "hidden" \in e.doorFlags
                      -> <<"[">> \o dir \o <<"]">>
                 [] OTHER -> dir
  IN  Marker(e) \o inner \o Marker(e)

\* The tokens of a room's exits in the canonical order of the directions.
Tokens(room) ==
  LET dirs == SelectSeq(<<north, east, south, west, up, down>>,
                        LAMBDA d : d \in DOMAIN room.exits)
  IN  [i \in 1..Len(dirs) |-> Token(dirs[i], room.exits[dirs[i]])]

\* C16: in a rendered room the exits line holds, joined with ', ' in the
\* canonical order, one token per exit: the direction in '()' for a visible
\* door and '[]' for a hidden one, inside one marker chosen in the order '!!'
\* (death), '??' (undefined or unknown room), '=' (road terrain), '-' (road
\* flag), none.  A hidden door to a road room reads '=[down]=', a visible
\* unnamed door north to a road room reads '=(north)=' and its doors entry
\* 'north: exit'.
C16_ExitsLine ==
  Rendered =>
    LET room == rooms[looks[1].currentRoom]
    IN  /\ Len(LinesOf("Exits: {0}")) = 1
        /\ room.exits # EmptyDict =>
             LinesOf("Exits: {0}")[1].arg = Join(<<",", " ">>, Tokens(room))
        /\ looks[1].currentRoom = r10 =>
             LinesOf("Exits: {0}")[1].arg = <<"=", "[", "d", "o", "w", "n", "]", "=">>
        /\ looks[1].currentRoom = r3 =>
             LinesOf("Exits: {0}")[1].arg = <<"[", "s", "o", "u", "t", "h", "]", ",", " ", "-", "u", "p", "-">>
        /\ looks[1].currentRoom = r5 =>
             LinesOf("Exits: {0}")[1].arg = <<"!", "!", "(", "n", "o", "r", "t", "h", ")", "!", "!", ",", " ", "s", "o", "u", "t", "h">>
        /\ looks[1].currentRoom = r2 =>
             /\ LinesOf("Exits: {0}")[1].arg
                  = <<"=", "(", "n", "o", "r", "t", "h", ")", "=", ",", " ", "!", "!", "e", "a", "s", "t", "!", "!", ",", " ", "?", "?", "s", "o", "u", "t", "h", "?", "?", ",", " ", "?", "?", "w", "e", "s", "t", "?", "?">>
             /\ Line("Doors:", NoStr) \in {out[i] : i \in DOMAIN out}
             /\ Line("{0}", <<"n", "o", "r", "t", "h", ":", " ", "e", "x", "i", "t">>)
                  \in {out[i] : i \in DOMAIN out}

\* Room 2, with its four exits and its unnamed door, has been rendered by a
\* look.
C16_Witness ==
  /\ Rendered
  /\ handler = "look"
  /\ currentRoom = r2
  /\ Len(Tokens(rooms[r2])) = 4
  /\ Len(LinesOf("Exits: {0}")) = 1


\* The exits command has run in a room without exits.
ExitsOfNone ==
  /\ handler = "exits"
  /\ currentRoom # None
  /\ rooms[currentRoom].exits = EmptyDict

\* C17 as stated: in a room without exits the exits command writes exactly
\* the single line "Exits: None!" and no doors line.
C17_SingleLine ==
  ExitsOfNone =>
    \/ out = <<Line("Exits: {0}", <<"N", "o", "n", "e", "!">>)>>
    \/ out = <<Line("Exits: None!", NoStr)>>

\* C17: in a room without exits the exits command writes exactly two lines,
\* the header "Exits:" and then "None!", and no doors line.
C17_HeaderThenNone ==
  ExitsOfNone =>
    /\ out = <<Line("Exits:", NoStr), Line("None!", NoStr)>>
    /\ Line("Doors:", NoStr) \notin {out[i] : i \in DOMAIN out}
    /\ looks = <<>>
    /\ pc = "prompt"

C17_Witness ==
  /\ ExitsOfNone
  /\ currentRoom = r1
  /\ userInput = <<"e", "x">>
  /\ Len(out) = 2


\* The value the consumer of a setting reads in a state: look reads
\* show_vnum and brief with the default True, the prompt of Emulator.run reads
\* use_terrain_symbols with no default.
Consumer(h, st) ==
  CASE h = "vnum" -> Get(st.config, "show_vnum", TRUE)
    [] h = "brief" -> Get(st.config, "brief", TRUE)
    [] h = "terrain" -> Prompt(st).symbol

\* C18: each of vnum, brief and terrain toggles its setting as its consumer
\* sees it: what look (show_vnum, brief) or the prompt (use_terrain_symbols)
\* reads after the command is the negation of what it read before, whether
\* the setting was true, false or absent, and the reported state is the value
\* read afterwards.
C18_ConsumerSeesToggle ==
  [][handler' \in {"vnum", "brief", "terrain"} =>
       LET before == Consumer(handler', Self(currentRoom, config))
           after == Consumer(handler', Self(currentRoom', config'))
       IN  /\ after = ~before
           /\ out' = <<StatusLine(handler', after)>>]_vars


\* The prompt of lines 221-230 was composed and a line is awaited.
AtPrompt == pc = "prompt" /\ currentRoom # None

\* C19: at every prompt after startup, and from the end of the loop on, so
\* when the settings are saved, last_vnum is the identifier of the current
\* room, whatever moves, failed moves, looks and toggles came before.
C19_LastVnumIsCurrentRoom ==
  /\ (AtPrompt \/ pc = "quit" \/ Saved) =>
       /\ "last_vnum" \in DOMAIN config
       /\ config["last_vnum"] = currentRoom
       /\ currentRoom \in DOMAIN rooms
  /\ Saved => getConfig(configFile)["last_vnum"] = currentRoom

\* At a prompt in room 3, not the room of startup, after a move that failed
\* and with a setting toggled.
C19_Witness ==
  /\ AtPrompt
  /\ sampleConfigFile = File("show_vnum" :> FALSE)
  /\ currentRoom = r3
  /\ config["last_vnum"] = r3
  /\ config["show_vnum"] = TRUE
  /\ handler = "direction"
  /\ out = <<Line("Alas, you cannot go that way!", NoStr)>>


\* The exits line look renders for a room.
ExitsLine(room) == SelectSeq(LookLines(Self(room, config)),
                             LAMBDA l : l.text = "Exits: {0}")[1].arg

\* The entries of the exits line of a room, one per exit, by direction.
Shown(room) ==
  [d \in DOMAIN rooms[room].exits |-> ExitEntry(d, rooms[room].exits[d])]

Marked(entry) ==
  StartsWith(entry, <<"!", "!">>) \/ StartsWith(entry, <<"?", "?">>)

\* C20: for a room and a direction in which it has an exit, the move in that
\* direction succeeds, making the exit's destination the current room, if and
\* only if the exits line rendered for the room shows that exit with neither
\* '!!' nor '??'.
C20_MoveAgreesWithExitsLine ==
  [][(handler' = "direction" /\ currentRoom # None
        /\ moveArg' \in DOMAIN rooms[currentRoom].exits)
     => LET to == rooms[currentRoom].exits[moveArg'].to
            order == SortExits(rooms[currentRoom].exits)
        IN  /\ ExitsLine(currentRoom)
                 = Join(<<",", " ">>,
                        [i \in 1..Len(order) |-> Shown(currentRoom)[order[i]]])
            /\ (currentRoom' = to /\ looks' # <<>>)
                 <=> ~Marked(Shown(currentRoom)[moveArg'])
            /\ Marked(Shown(currentRoom)[moveArg'])
                 => (currentRoom' = currentRoom /\ looks' = <<>>)]_vars

\* The move west from room 2, whose exits line shows '??west??', has failed.
C20_Witness ==
  /\ handler = "direction"
  /\ moveArg = west
  /\ currentRoom = r2
  /\ Marked(Shown(r2)[west])
  /\ looks = <<>>
  /\ out = <<Line("Error: no rooms in the database with vnum ({0}).", r7)>>

====
